---- MODULE Spec2Model ----
(***************************************************************************)
(* Model of perf-script-analyze (src/main.rs): the PerfSamples reader that *)
(* cuts perf script's output into samples, the SampleAnalyzer classifier,  *)
(* and the main loop that drives them.  Text is modelled as TLA+ strings,  *)
(* one character per byte (the streams considered are ASCII).              *)
(***************************************************************************)
EXTENDS Integers, Sequences, FiniteSets, TLC

(***************************************************************************)
(* Bounds of the model                                                     *)
(***************************************************************************)
\* longest raw input stream, in bytes, of the byte-level input family
MaxStreamLen == 8
\* most frames in a stack trace of the frame-level input family
MaxFrames == 3

(***************************************************************************)
(* Text helpers (std::str operations used by the program)                  *)
(***************************************************************************)
Char(s, i) == SubSeq(s, i, i)

\* str[from..to] with 0-based, end-exclusive byte offsets
Slice(s, from, to) == SubSeq(s, from + 1, to)

StartsWith(s, p) == Len(p) <= Len(s) /\ SubSeq(s, 1, Len(p)) = p

EndsWith(s, p) == Len(p) <= Len(s) /\ SubSeq(s, Len(s) - Len(p) + 1, Len(s)) = p

\* char::is_whitespace, restricted to the characters of the model
IsWhitespace(c) == c \in {" ", "\t", "\n", "\r"}

\* index of the first "\n" of s at or after i, or Len(s) when there is none
RECURSIVE LineEndFrom(_, _)
LineEndFrom(s, i) ==
    IF i >= Len(s) THEN Len(s)
    ELSE IF Char(s, i) = "\n" THEN i
    ELSE LineEndFrom(s, i + 1)

\* BufRead::read_line: the bytes up to and including the next "\n", or all
\* the remaining bytes at end of stream ("" exactly when the stream is over)
ReadLine(rest) == SubSeq(rest, 1, LineEndFrom(rest, 1))

\* str::split_whitespace: the maximal runs of non-whitespace characters
RECURSIVE SplitWs(_, _, _, _)
SplitWs(s, i, cur, acc) ==
    IF i > Len(s) THEN (IF Len(cur) > 0 THEN Append(acc, cur) ELSE acc)
    ELSE IF IsWhitespace(Char(s, i))
         THEN SplitWs(s, i + 1, "", IF Len(cur) > 0 THEN Append(acc, cur) ELSE acc)
         ELSE SplitWs(s, i + 1, cur \o Char(s, i), acc)

SplitWhitespace(s) == SplitWs(s, 1, "", <<>>)

\* one line of str::lines: a trailing "\n" and then a trailing "\r" removed
StripLineEnd(l) ==
    LET a == IF EndsWith(l, "\n") THEN SubSeq(l, 1, Len(l) - 1) ELSE l
    IN  IF EndsWith(a, "\r") THEN SubSeq(a, 1, Len(a) - 1) ELSE a

\* str::lines: split after every "\n"; no empty line after a final "\n"
RECURSIVE LinesOf(_)
LinesOf(s) ==
    IF Len(s) = 0 THEN <<>>
    ELSE LET l == ReadLine(s)
         IN  <<StripLineEnd(l)>> \o LinesOf(SubSeq(s, Len(l) + 1, Len(s)))

Reverse(q) == [i \in 1..Len(q) |-> q[Len(q) + 1 - i]]

(***************************************************************************)
(* u32 arithmetic of str::parse::<u32>, kept in two 16-bit halves          *)
(***************************************************************************)
Half == 65536

Digits == <<"0", "1", "2", "3", "4", "5", "6", "7", "8", "9">>

IsDigit(c) == \E d \in 1..10 : Digits[d] = c

DigitVal(c) == (CHOOSE d \in 1..10 : Digits[d] = c) - 1

ParseErr == [ok |-> FALSE, hi |-> 0, lo |-> 0]

\* result.checked_mul(10)?.checked_add(d)? for every digit, left to right
RECURSIVE ParseDigits(_, _, _, _)
ParseDigits(s, i, hi, lo) ==
    IF i > Len(s) THEN [ok |-> TRUE, hi |-> hi, lo |-> lo]
    ELSE IF ~IsDigit(Char(s, i)) THEN ParseErr
    ELSE LET l  == lo * 10 + DigitVal(Char(s, i))
             h  == hi * 10 + (l \div Half)
         IN  IF h >= Half THEN ParseErr
             ELSE ParseDigits(s, i + 1, h, l % Half)

\* u32::from_str: empty is an error, a lone sign is an error, one leading
\* "+" is accepted, "-" is not a digit of an unsigned type
ParseU32(s) ==
    IF Len(s) = 0 THEN ParseErr
    ELSE IF Len(s) = 1 /\ s \in {"+", "-"} THEN ParseErr
    ELSE IF Char(s, 1) = "+" THEN ParseDigits(s, 2, 0, 0)
    ELSE ParseDigits(s, 1, 0, 0)

(***************************************************************************)
(* SampleAnalyzer: configuration and classify                              *)
(***************************************************************************)
expected_root_funcs ==
    {"_start", "native_irq_return_iret", "__libc_start_main",
     "_dl_start_user", "__clone"}

expected_root_dsos == {"([kernel.kallsyms])", "(/usr/bin/perf)"}

known_bad_dsos ==
    {"(/usr/lib64/xorg/modules/drivers/nvidia_drv.so)",
     "(/usr/lib64/libGLX_nvidia.so.384.98)"}

JIT_START == "(/tmp/perf-"

JIT_END == ".map)"

\* Option<T>: None is the empty sequence, Some(x) is <<x>>
None == <<>>

Some(x) == <<x>>

Cat(tag, arg) == [tag |-> tag, arg |-> arg]

\* outcome of a failed unwrap(): the process aborts, there is no category
Panic == Cat("Panic", "")

\* variant: both the DSO and the function must be expected
IsExpectedRoot_Both(last_dso, last_function_name) ==
    /\ last_dso \in expected_root_dsos
    /\ last_function_name \in expected_root_funcs

IsExpectedRoot(last_dso, last_function_name) ==
    \/ last_dso \in expected_root_dsos
    \/ last_function_name \in expected_root_funcs

AllF(ip) == \A i \in 1..Len(ip) : Char(ip, i) = "f"

\* variant: the length of the pointer is not looked at
IsTruncatedIp_AnyLength(last_instruction_pointer) == AllF(last_instruction_pointer)

IsTruncatedIp(last_instruction_pointer) ==
    /\ Len(last_instruction_pointer) % 8 = 0
    /\ AllF(last_instruction_pointer)

IsJitDso(last_dso) == StartsWith(last_dso, JIT_START) /\ EndsWith(last_dso, JIT_END)

\* variant: the slice starts one byte late
JitPidText_OffByOne(last_dso) ==
    Slice(last_dso, Len(JIT_START) + 1, Len(last_dso) - Len(JIT_END))

JitPidText(last_dso) == Slice(last_dso, Len(JIT_START), Len(last_dso) - Len(JIT_END))

\* frame.split_whitespace().rev().next(): the last column of a frame line
FrameDso(frame) ==
    LET cols == SplitWhitespace(frame)
    IN  IF Len(cols) = 0 THEN None ELSE Some(cols[Len(cols)])

\* lines().rev().map(..unwrap()).skip_while(== "([unknown])").next(), lazily:
\* frames[i..] is what the reversed iterator has not yielded yet
RECURSIVE SkipUnknown(_, _)
SkipUnknown(frames, i) ==
    IF i > Len(frames) THEN [panic |-> FALSE, dso |-> None]
    ELSE LET d == FrameDso(frames[i])
         IN  IF d = None THEN [panic |-> TRUE, dso |-> None]
             ELSE IF d[1] = "([unknown])" THEN SkipUnknown(frames, i + 1)
             ELSE [panic |-> FALSE, dso |-> d]

LastValidDso(stack_trace) == SkipUnknown(Reverse(LinesOf(stack_trace)), 1)

classify(sample) ==
    IF sample.last_stack_frame = None THEN Cat("NoStackTrace", "")
    ELSE
    LET cols == SplitWhitespace(sample.last_stack_frame[1])
    IN  IF Len(cols) < 3 THEN Panic
        ELSE
        LET last_instruction_pointer == cols[1]
            last_function_name == cols[2]
            last_dso == cols[3]
            opt_deleted == IF Len(cols) >= 4 THEN Some(cols[4]) ELSE None
        IN  IF IsExpectedRoot(last_dso, last_function_name)
              THEN Cat("Normal", "")
            ELSE IF IsTruncatedIp(last_instruction_pointer)
              THEN Cat("TruncatedStack", "")
            ELSE IF IsJitDso(last_dso)
              THEN LET pid == ParseU32(JitPidText(last_dso))
                   IN  IF pid.ok THEN Cat("JitCompiledBy", [hi |-> pid.hi, lo |-> pid.lo])
                       ELSE Panic
            ELSE IF opt_deleted = Some("(deleted))")
              THEN Cat("DeletedByPerf", "")
            ELSE
            LET last_valid_dso == LastValidDso(sample.stack_trace)
            IN  IF last_valid_dso.panic THEN Panic
                ELSE IF /\ last_valid_dso.dso # None
                        /\ last_valid_dso.dso[1] \in known_bad_dsos
                  THEN Cat("BrokenByBadDSO", last_valid_dso.dso[1])
                ELSE IF last_dso = "([unknown])"
                  THEN Cat("BrokenLastFrame", "")
                ELSE Cat("UnexpectedLastFunc", last_function_name)

Categories ==
    {"Normal", "NoStackTrace", "TruncatedStack", "JitCompiledBy",
     "DeletedByPerf", "BrokenByBadDSO", "BrokenLastFrame", "UnexpectedLastFunc"}

(***************************************************************************)
(* PerfSamples: the sample built at the end of next()                      *)
(***************************************************************************)
\* `line_len <= 1`: the line that ends a record (a bare "\n", or end of input)
EndsRecord(line_len) == line_len <= 1

RawSampleData(buf, last_line_end) == Slice(buf, 0, last_line_end)

Header(buf, hlen) == Slice(buf, 0, hlen)

\* variant: the trace runs to the end of the buffer, separator included
StackTrace_ToBufferEnd(buf, hlen, last_line_end) == Slice(buf, hlen, Len(buf))

StackTrace(buf, hlen, last_line_end) == Slice(buf, hlen, last_line_end)

\* variant: the last frame is measured back from the end of the buffer
LastStackFrame_FromBufferEnd(buf, lll, last_line_end) ==
    IF lll = None THEN None
    ELSE Some(Slice(buf, Len(buf) - lll[1], Len(buf)))

LastStackFrame(buf, lll, last_line_end) ==
    IF lll = None THEN None
    ELSE Some(Slice(buf, last_line_end - lll[1], last_line_end))

MakeSample(buf, hlen, lll, last_line_end) ==
    [raw_sample_data  |-> RawSampleData(buf, last_line_end),
     header           |-> Header(buf, hlen),
     stack_trace      |-> StackTrace(buf, hlen, last_line_end),
     last_stack_frame |-> LastStackFrame(buf, lll, last_line_end)]

NoSample ==
    [raw_sample_data |-> "", header |-> "", stack_trace |-> "",
     last_stack_frame |-> None]

(***************************************************************************)
(* Input streams considered                                                *)
(***************************************************************************)
Alphabet == {"a", "\n", "\r"}

RECURSIVE StringsUpTo(_)
StringsUpTo(n) ==
    IF n = 0 THEN {""}
    ELSE LET shorter == StringsUpTo(n - 1)
         IN  shorter \cup {s \o c : s \in shorter, c \in Alphabet}

\* every byte stream over the alphabet, up to MaxStreamLen bytes
ByteStreams == StringsUpTo(MaxStreamLen)

FrameLine(ip, func, dso, marker) ==
    "\t" \o ip \o " " \o func \o " " \o dso
         \o (IF Len(marker) > 0 THEN " " \o marker ELSE "") \o "\n"

IPs == {"ffffffff", "fffffff", "ffffffffffffffff", "7ffff7a5"}

Funcs == {"_start", "main"}

RootDsos ==
    {"([kernel.kallsyms])", "(/usr/bin/app)", "([unknown])",
     "(/usr/lib64/libGLX_nvidia.so.384.98)", "(/tmp/perf-4242.map)"}

Markers == {"", "(deleted))"}

JitDsos ==
    {"(/tmp/perf-.map)", "(/tmp/perf-+42.map)", "(/tmp/perf-0042.map)",
     "(/tmp/perf-4294967295.map)", "(/tmp/perf-4294967296.map)",
     "(/tmp/perf-42x.map)", "(/tmp/perf--1.map)", "(/tmp/perf-+.map)",
     "(/tmp/perf-65536.map)", "(/tmp/perf-4242.map"}

\* the last (root) frame line of a trace
RootFrames ==
    {FrameLine(ip, f, d, m) : ip \in IPs, f \in Funcs, d \in RootDsos, m \in Markers}
    \cup {FrameLine("7ffff7a5", "main", d, "") : d \in JitDsos}
    \cup {"\t7ffff7a5 main\n", "\t7ffff7a5 main (/usr/bin/app) (deleted)) x\n"}

\* the frame lines above the root frame
InnerFrames ==
    {FrameLine("7ffff7a5", "work", "(/usr/bin/app)", ""),
     FrameLine("7ffff7a5", "[unknown]", "([unknown])", ""),
     FrameLine("7ffff7a5", "draw", "(/usr/lib64/libGLX_nvidia.so.384.98)", "(deleted))"),
     FrameLine("7ffff7a5", "[unknown]", "([unknown])", "(deleted))")}

RECURSIVE InnerTraces(_)
InnerTraces(n) ==
    IF n = 0 THEN {""}
    ELSE LET shorter == InnerTraces(n - 1)
         IN  shorter \cup {t \o f : t \in shorter, f \in InnerFrames}

\* one record of perf script: a header, up to MaxFrames frames, a blank line
FrameStreams ==
    {"app 4242 cycles:\n\n"}
    \cup {"app 4242 cycles:\n" \o t \o r \o "\n" :
             t \in InnerTraces(MaxFrames - 1), r \in RootFrames}

(***************************************************************************)
(* State                                                                   *)
(***************************************************************************)
VARIABLES
    stream,         \* everything perf script writes to the pipe
    pos,            \* bytes of stream the BufReader has handed out
    buffer,         \* PerfSamples::buffer
    header_len,     \* PerfSamples::header_len
    last_line_len,  \* PerfSamples::last_line_len
    sample,         \* the Sample handed to main by the last next()
    category,       \* result of the last classify()
    num_samples,    \* main's num_samples
    returned,       \* raw_sample_data of every sample main received, in order
    io_failed,      \* a read of the underlying stream has returned an error
    pc              \* where main is

vars == <<stream, pos, buffer, header_len, last_line_len, sample, category,
          num_samples, returned, io_failed, pc>>

Rest == SubSeq(stream, pos + 1, Len(stream))

Init ==
    /\ stream \in ByteStreams \cup FrameStreams
    /\ pos = 0
    /\ buffer = ""
    /\ header_len = 0
    /\ last_line_len = None
    /\ sample = NoSample
    /\ category = Cat("None", "")
    /\ num_samples = 0
    /\ returned = <<>>
    /\ io_failed = FALSE
    /\ pc = "next"

(***************************************************************************)
(* PerfSamples::next, one step per line read                               *)
(***************************************************************************)
\* `self.load_next_line()?` fails on the header: next() returns the error
HeaderReadError ==
    /\ io_failed' = TRUE
    /\ buffer' = ""
    /\ header_len' = 0
    /\ pos' = pos
    /\ pc' = "io_error"

\* variant: a failed read in the loop is taken for the end of the input
TraceReadError_AsEndOfInput ==
    /\ io_failed' = TRUE
    /\ sample' = MakeSample(buffer, header_len, last_line_len, Len(buffer))
    /\ returned' = Append(returned, sample'.raw_sample_data)
    /\ pc' = "classify"
    /\ UNCHANGED <<pos, buffer, last_line_len>>

\* `self.load_next_line()?` fails in the loop: next() returns the error
TraceReadError ==
    /\ io_failed' = TRUE
    /\ pc' = "io_error"
    /\ UNCHANGED <<pos, buffer, last_line_len, sample, returned>>

\* next() up to the header test: reset(), read the header, detect the end
NextHeader ==
    /\ pc = "next"
    /\ last_line_len' = None
    /\ sample' = NoSample
    /\ UNCHANGED <<stream, category, num_samples, returned>>
    /\ \/ HeaderReadError
       \/ LET line == ReadLine(Rest)
          IN  /\ buffer' = line
              /\ UNCHANGED io_failed
              /\ header_len' = Len(line)
              /\ pos' = pos + Len(line)
              /\ pc' = IF Len(line) = 0 THEN "eof" ELSE "loop"

\* one iteration of the loop of next(), and the return that follows a break
LoadTraceLine ==
    /\ pc = "loop"
    /\ UNCHANGED <<stream, header_len, category, num_samples>>
    /\ \/ TraceReadError
       \/ LET line == ReadLine(Rest)
              line_len == Len(line)
              buf == buffer \o line
          IN  /\ buffer' = buf
              /\ UNCHANGED io_failed
              /\ pos' = pos + line_len
              /\ IF EndsRecord(line_len)
                 THEN LET last_line_end == Len(buf) - line_len
                      IN  /\ sample' = MakeSample(buf, header_len, last_line_len,
                                                  last_line_end)
                          /\ returned' = Append(returned, sample'.raw_sample_data)
                          /\ pc' = "classify"
                          /\ UNCHANGED last_line_len
                 ELSE /\ last_line_len' = Some(line_len)
                      /\ pc' = "loop"
                      /\ UNCHANGED <<sample, returned>>

(***************************************************************************)
(* main                                                                    *)
(***************************************************************************)
\* the body of the while loop: count the sample and classify it
Classify ==
    /\ pc = "classify"
    /\ num_samples' = num_samples + 1
    /\ category' = classify(sample)
    /\ pc' = IF category'.tag = "Panic" THEN "panicked" ELSE "next"
    /\ UNCHANGED <<stream, pos, buffer, header_len, last_line_len, sample, returned,
                   io_failed>>

\* next() returned Ok(None): the loop ends and the summary is printed
Finish ==
    /\ pc = "eof"
    /\ pc' = "done"
    /\ UNCHANGED <<stream, pos, buffer, header_len, last_line_len, sample,
                   category, num_samples, returned, io_failed>>

\* next() returned Err: unwrap() aborts the program
Abort ==
    /\ pc = "io_error"
    /\ pc' = "aborted"
    /\ UNCHANGED <<stream, pos, buffer, header_len, last_line_len, sample,
                   category, num_samples, returned, io_failed>>

Next == NextHeader \/ LoadTraceLine \/ Classify \/ Finish \/ Abort

Spec == Init /\ [][Next]_vars

(***************************************************************************)
(* Vocabulary of the properties                                            *)
(***************************************************************************)
\* next() has just returned `sample` to main
Returned == pc = "classify"

\* classify() has just run on `sample`, `category` is its outcome
Classified == num_samples > 0 /\ pc \in {"next", "panicked"}

\* length of the line terminator of a line: "\r\n", "\n", or none
TerminatorLen(line) ==
    IF Len(line) >= 2 /\ SubSeq(line, Len(line) - 1, Len(line)) = "\r\n" THEN 2
    ELSE IF Len(line) >= 1 /\ SubSeq(line, Len(line), Len(line)) = "\n" THEN 1
    ELSE 0

\* a blank line: a terminated line whose content has zero length
IsBlankLine(line) == TerminatorLen(line) > 0 /\ Len(line) = TerminatorLen(line)

\* number of characters of s up to and including its first "\n" (all of s
\* when it has none)
RECURSIVE FirstLineLen(_, _)
FirstLineLen(s, i) ==
    IF i > Len(s) THEN Len(s)
    ELSE IF SubSeq(s, i, i) = "\n" THEN i
    ELSE FirstLineLen(s, i + 1)

\* the lines of a text, each with its terminator
RECURSIVE LinesWithEnds(_)
LinesWithEnds(s) ==
    IF Len(s) = 0 THEN <<>>
    ELSE LET n == FirstLineLen(s, 1)
         IN  <<SubSeq(s, 1, n)>> \o LinesWithEnds(SubSeq(s, n + 1, Len(s)))

\* the columns of the last frame of `sample` (<<>> when there is none)
LastColumns ==
    IF sample.last_stack_frame = None THEN <<>>
    ELSE SplitWhitespace(sample.last_stack_frame[1])

(***************************************************************************)
(* C1: every sample returned by next() satisfies                           *)
(* header ++ stack_trace = raw_sample_data, with header the prefix         *)
(* [0, header_len) and stack_trace the part [header_len, trace end) of     *)
(* the buffer, header_len <= trace end <= buffer length.                   *)
(***************************************************************************)
C1_RoundTripSlicing ==
    Returned =>
        LET trace_end == Len(sample.raw_sample_data)
        IN  /\ sample.header \o sample.stack_trace = sample.raw_sample_data
            /\ header_len <= trace_end
            /\ trace_end <= Len(buffer)
            /\ sample.raw_sample_data = SubSeq(buffer, 1, trace_end)
            /\ sample.header = SubSeq(buffer, 1, header_len)
            /\ sample.stack_trace = SubSeq(buffer, header_len + 1, trace_end)

\* a second sample, with frames, returned after a blank-line separator
C1_Witness ==
    /\ Returned
    /\ num_samples >= 1
    /\ Len(sample.header) > 1
    /\ Len(sample.stack_trace) > 0
    /\ Len(buffer) > Len(sample.raw_sample_data)

C10_IoErrorIsFatal ==
    /\ [](io_failed =>
            /\ pc \in {"io_error", "aborted"}
            /\ sample = NoSample
            /\ Len(returned) = num_samples)
    /\ [][io_failed =>
            /\ pc' = "aborted"
            /\ pos' = pos
            /\ returned' = returned
            /\ num_samples' = num_samples
            /\ sample' = sample]_vars

\* the read of a trace line failed after a header and a frame were read
C10_Witness ==
    /\ io_failed
    /\ pc = "aborted"
    /\ header_len > 0
    /\ last_line_len # None
    /\ num_samples >= 1

(***************************************************************************)
(* Records of the input stream, as the input contract describes them       *)
(***************************************************************************)
AllLinesTerminated(s) ==
    \A i \in 1..Len(LinesWithEnds(s)) : TerminatorLen(LinesWithEnds(s)[i]) > 0

\* s is N >= 1 records: a header line, frame lines, one blank line; every
\* line is terminated; the last blank line may be missing
WellFormedRecords(s) ==
    LET lines == LinesWithEnds(s)
    IN  /\ Len(lines) >= 1
        /\ ~IsBlankLine(lines[1])
        /\ AllLinesTerminated(s)
        /\ \A i \in 1..(Len(lines) - 1) :
               IsBlankLine(lines[i]) => ~IsBlankLine(lines[i + 1])

\* the records of a well-formed stream: the lines between blank lines
RECURSIVE GroupRecords(_, _, _)
GroupRecords(lines, i, cur) ==
    IF i > Len(lines) THEN (IF Len(cur) > 0 THEN <<cur>> ELSE <<>>)
    ELSE IF IsBlankLine(lines[i])
         THEN <<cur>> \o GroupRecords(lines, i + 1, "")
         ELSE GroupRecords(lines, i + 1, cur \o lines[i])

ExpectedRecords(s) == GroupRecords(LinesWithEnds(s), 1, "")

OnlyLineFeeds(s) ==
    \A i \in 1..Len(LinesWithEnds(s)) : TerminatorLen(LinesWithEnds(s)[i]) = 1

(***************************************************************************)
(* C2: on a stream of N >= 1 records, the calls of next() return the N     *)
(* records in order, the k-th sample being exactly the header and frame    *)
(* lines of the k-th record, and the call after the last one reports the   *)
(* end of the stream.                                                      *)
(***************************************************************************)
C2_RecordsInOrder ==
    WellFormedRecords(stream) =>
        LET expected == ExpectedRecords(stream)
        IN  /\ Len(returned) <= Len(expected)
            /\ \A k \in 1..Len(returned) : returned[k] = expected[k]
            /\ pc \in {"eof", "done"} => returned = expected

\* the same statement for streams whose lines all end in a bare "\n"
C2_RecordsInOrder_LineFeeds ==
    OnlyLineFeeds(stream) => C2_RecordsInOrder

(***************************************************************************)
(* C3: next() ends a record at the first blank line, a blank line being a  *)
(* line of zero length once its terminator ("\n" or "\r\n") is removed:    *)
(* no line of stack_trace is blank, and the line that closes the record is *)
(* blank (or the stream is over).                                          *)
(***************************************************************************)
C3_EndsAtFirstBlankLine ==
    (Returned /\ WellFormedRecords(stream)) =>
        LET trace_end == Len(sample.raw_sample_data)
            closing == SubSeq(buffer, trace_end + 1, Len(buffer))
            lines == LinesWithEnds(sample.stack_trace)
        IN  /\ Len(closing) = 0 \/ IsBlankLine(closing)
            /\ \A i \in 1..Len(lines) : ~IsBlankLine(lines[i])

\* the same statement for streams whose lines all end in a bare "\n"
C3_EndsAtFirstBlankLine_LineFeeds ==
    OnlyLineFeeds(stream) => C3_EndsAtFirstBlankLine

(***************************************************************************)
(* The last frame, as the classifier's checks are described                *)
(***************************************************************************)
HasThreeColumns == Len(LastColumns) >= 3

LastIp == LastColumns[1]

LastFunc == LastColumns[2]

LastDso == LastColumns[3]

ExpectedRoot == LastFunc \in expected_root_funcs \/ LastDso \in expected_root_dsos

TruncatedIp ==
    /\ Len(LastIp) % 8 = 0
    /\ \A i \in 1..Len(LastIp) : SubSeq(LastIp, i, i) = "f"

JitShaped ==
    /\ Len(LastDso) >= 11 /\ SubSeq(LastDso, 1, 11) = "(/tmp/perf-"
    /\ Len(LastDso) >= 5 /\ SubSeq(LastDso, Len(LastDso) - 4, Len(LastDso)) = ".map)"

\* the text between "(/tmp/perf-" and ".map)"
JitInner == SubSeq(LastDso, 12, Len(LastDso) - 5)

DeletedMarker == Len(LastColumns) >= 4 /\ LastColumns[4] = "(deleted))"

(***************************************************************************)
(* Decimal numbers, independent of the parser                              *)
(***************************************************************************)
AllDigits(t) == Len(t) > 0 /\ \A i \in 1..Len(t) : IsDigit(SubSeq(t, i, i))

\* t without its leading zeros ("0" for zero)
RECURSIVE Canonical(_)
Canonical(t) ==
    IF Len(t) > 1 /\ SubSeq(t, 1, 1) = "0" THEN Canonical(SubSeq(t, 2, Len(t)))
    ELSE t

\* a <= b for two digit strings of the same length
RECURSIVE DigitsLeq(_, _)
DigitsLeq(a, b) ==
    IF Len(a) = 0 THEN TRUE
    ELSE LET x == DigitVal(SubSeq(a, 1, 1))
             y == DigitVal(SubSeq(b, 1, 1))
         IN  IF x < y THEN TRUE
             ELSE IF x > y THEN FALSE
             ELSE DigitsLeq(SubSeq(a, 2, Len(a)), SubSeq(b, 2, Len(b)))

\* the number written t is at most u32::MAX
FitsU32(t) ==
    LET c == Canonical(t)
    IN  Len(c) < 10 \/ (Len(c) = 10 /\ DigitsLeq(c, "4294967295"))

\* t is an unsigned decimal integer: digits only, representable in 32 bits
StrictUnsigned(t) == AllDigits(t) /\ FitsU32(t)

\* t is an unsigned decimal integer, possibly written with one leading "+"
SignedUnsigned(t) ==
    \/ StrictUnsigned(t)
    \/ Len(t) > 1 /\ SubSeq(t, 1, 1) = "+" /\ StrictUnsigned(SubSeq(t, 2, Len(t)))

DigitsOf(t) == IF SubSeq(t, 1, 1) = "+" THEN SubSeq(t, 2, Len(t)) ELSE t

\* the decimal writing of the 32-bit number hi * 2^16 + lo, by long division
RECURSIVE DecimalOf(_, _)
DecimalOf(hi, lo) ==
    LET t == (hi % 10) * Half + lo
        q_hi == hi \div 10
        q_lo == t \div 10
        d == Digits[(t % 10) + 1]
    IN  IF q_hi = 0 /\ q_lo = 0 THEN d
        ELSE DecimalOf(q_hi + (q_lo \div Half), q_lo % Half) \o d

\* `category` is JitCompiledBy(n), n being the number written t
IsJitCompiledBy(t) ==
    /\ category.tag = "JitCompiledBy"
    /\ DecimalOf(category.arg.hi, category.arg.lo) = Canonical(DigitsOf(t))

(***************************************************************************)
(* C4: a last frame of at least 3 columns whose function is an expected    *)
(* root function, or whose DSO is an expected root DSO, classifies as      *)
(* Normal whatever the rest of the frame and of the trace is.              *)
(***************************************************************************)
C4_ExpectedRootIsNormal ==
    (Classified /\ HasThreeColumns /\ ExpectedRoot) => category.tag = "Normal"

\* an expected function alone, with an all-f pointer of 16 characters
C4_Witness ==
    /\ Classified
    /\ HasThreeColumns
    /\ LastFunc = "_start"
    /\ LastDso \notin expected_root_dsos
    /\ LastIp = "ffffffffffffffff"
    /\ category.tag = "Normal"

(***************************************************************************)
(* C9: a last frame of at least 3 columns that matches no expected-root    *)
(* condition classifies as TruncatedStack exactly when its instruction     *)
(* pointer has a length multiple of 8 and is made of 'f' only.             *)
(***************************************************************************)
C9_TruncatedStack ==
    (Classified /\ HasThreeColumns /\ ~ExpectedRoot) =>
        (category.tag = "TruncatedStack" <=> TruncatedIp)

\* seven 'f' are not a truncated stack
C9_Witness ==
    /\ Classified
    /\ HasThreeColumns
    /\ ~ExpectedRoot
    /\ LastIp = "fffffff"
    /\ category.tag # "TruncatedStack"
    /\ category.tag # "Panic"

(***************************************************************************)
(* C6: a last frame that reaches the JIT check with a DSO of the shape     *)
(* (/tmp/perf-<text>.map) classifies as JitCompiledBy(n) when <text> is    *)
(* the unsigned decimal integer n, and aborts otherwise.                   *)
(***************************************************************************)
ReachesJitCheck == Classified /\ HasThreeColumns /\ ~ExpectedRoot /\ ~TruncatedIp

\* C6 as stated: <text> must be made of digits only, anything else aborts
C6_JitPid_DigitsOnly ==
    (ReachesJitCheck /\ JitShaped) =>
        IF StrictUnsigned(JitInner) THEN IsJitCompiledBy(JitInner)
        ELSE category.tag = "Panic"

\* C6, amended: <text> may carry one leading "+"
C6_JitPid ==
    (ReachesJitCheck /\ JitShaped) =>
        IF SignedUnsigned(JitInner) THEN IsJitCompiledBy(JitInner)
        ELSE category.tag = "Panic"

\* (/tmp/perf-4242.map) gives JitCompiledBy(4242)
C6_Witness ==
    /\ ReachesJitCheck
    /\ LastDso = "(/tmp/perf-4242.map)"
    /\ category.tag = "JitCompiledBy"
    /\ category.arg = [hi |-> 0, lo |-> 4242]

(***************************************************************************)
(* The frames of the trace, as the known-bad-DSO check is described        *)
(***************************************************************************)
\* the columns of every frame line of the trace, first frame first
FrameColumns ==
    LET lines == LinesWithEnds(sample.stack_trace)
    IN  [i \in 1..Len(lines) |-> SplitWhitespace(lines[i])]

\* the frames whose DSO field (third column) is not the placeholder
KnownDsoFrames ==
    {i \in 1..Len(FrameColumns) : FrameColumns[i][3] # "([unknown])"}

\* the frame nearest to the root whose DSO field is not the placeholder
LastKnownDsoFrame == CHOOSE i \in KnownDsoFrames : \A j \in KnownDsoFrames : j <= i

\* check 7 holds: that frame exists and its DSO field is a known-bad DSO
BadDsoFound ==
    /\ KnownDsoFrames # {}
    /\ FrameColumns[LastKnownDsoFrame][3] \in known_bad_dsos

BadDso == FrameColumns[LastKnownDsoFrame][3]

(***************************************************************************)
(* C5: when no check 1 to 6 matches, the result is BrokenByBadDso(d)       *)
(* exactly when the frame nearest to the root whose DSO field (third       *)
(* column) is not ([unknown]) has the known-bad DSO d in that field.       *)
(***************************************************************************)
C5_BadDsoBackwardScan ==
    (/\ Classified
     /\ HasThreeColumns
     /\ \A i \in 1..Len(FrameColumns) : Len(FrameColumns[i]) >= 3
     /\ ~ExpectedRoot /\ ~TruncatedIp /\ ~JitShaped /\ ~DeletedMarker) =>
        IF BadDsoFound
        THEN category.tag = "BrokenByBadDSO" /\ category.arg = BadDso
        ELSE category.tag # "BrokenByBadDSO"

(***************************************************************************)
(* C7: on a sample whose frame lines all have 3 or 4 columns and whose     *)
(* JIT-shaped DSO embeds a valid pid, classify does not abort and returns  *)
(* the category of the first check, in the order 1, 3, 4, 5, 6, 7, 8, 9,   *)
(* whose condition holds.                                                  *)
(***************************************************************************)
WellFormedSample ==
    /\ \A i \in 1..Len(FrameColumns) : Len(FrameColumns[i]) \in {3, 4}
    /\ (HasThreeColumns /\ JitShaped) => SignedUnsigned(JitInner)

\* the category's name, by the decision list
FirstMatch ==
    IF sample.last_stack_frame = None THEN "NoStackTrace"
    ELSE IF ExpectedRoot THEN "Normal"
    ELSE IF TruncatedIp THEN "TruncatedStack"
    ELSE IF JitShaped THEN "JitCompiledBy"
    ELSE IF DeletedMarker THEN "DeletedByPerf"
    ELSE IF BadDsoFound THEN "BrokenByBadDSO"
    ELSE IF LastDso = "([unknown])" THEN "BrokenLastFrame"
    ELSE "UnexpectedLastFunc"

C7_DecisionList ==
    (Classified /\ WellFormedSample) =>
        /\ category.tag \in Categories
        /\ category.tag = FirstMatch
        /\ category.tag = "JitCompiledBy" => IsJitCompiledBy(JitInner)
        /\ category.tag = "BrokenByBadDSO" => category.arg = BadDso
        /\ category.tag = "UnexpectedLastFunc" => category.arg = LastFunc

\* the part of C7 that does not depend on check 7: no abort, one of the
\* eight categories
C7_Total ==
    (Classified /\ WellFormedSample) => category.tag \in Categories

====
